---- MODULE Spec2Model ----
(***************************************************************************)
(* Model of the plugin-based FizzBuzz engine of src/fizzbuzz.ts.           *)
(*                                                                         *)
(* Strings are sequences of tokens, so concatenation is \o and the empty   *)
(* string is <<>>.  Optional fields are << >> (absent) or <<v>> (present). *)
(* Rules, rule sets and groups are objects with identity: they are named   *)
(* by identifiers and the arrays hold those identifiers (references).      *)
(* The rules array of every rule set lives in the variable rulesOf,        *)
(* because Array.prototype.sort works in place.                            *)
(***************************************************************************)
EXTENDS Integers, Sequences, FiniteSets, TLC

\* ---------------------------------------------------------------- bounds
MaxStart == 2
MaxEnd == 6
MaxStep == 3
MaxPlugins == 2

\* ------------------------------------------------------- optional values
None == << >>
Some(x) == <<x>>
Get(m) == m[1]

\* number.toString(): the decimal digits of a non-negative integer
Digit(d) == CASE d = 0 -> "0" [] d = 1 -> "1" [] d = 2 -> "2" [] d = 3 -> "3"
              [] d = 4 -> "4" [] d = 5 -> "5" [] d = 6 -> "6" [] d = 7 -> "7"
              [] d = 8 -> "8" [] d = 9 -> "9"

RECURSIVE NumToString(_)
NumToString(n) == IF n < 10 THEN <<Digit(n)>> ELSE NumToString(n \div 10) \o <<Digit(n % 10)>>

\* ------------------------------------------- caller-supplied predicates
\* RuleEvaluator functions the plugins are built from (pure functions of num)
CallEvaluator(name, num) ==
    CASE name = "always" -> TRUE
      [] name = "never"  -> FALSE
      [] name = "div2"   -> num % 2 = 0
      [] name = "div3"   -> num % 3 = 0
      [] name = "gt3"    -> num > 3

\* ------------------------------------------------------------ the rules
RuleIds == {"rFizz", "rBuzz", "rAny", "rDead", "rShadow", "rTie", "rLow"}

RuleDef ==
    [r \in RuleIds |->
      CASE r = "rFizz"   -> [evaluator |-> Some("div3"), condition |-> None, output |-> <<"Fizz">>,
                             events |-> Some(<<"e1", "e2">>), filter |-> None, priority |-> Some(2)]
        [] r = "rBuzz"   -> [evaluator |-> Some("div2"), condition |-> None, output |-> <<"Buzz">>,
                             events |-> Some(<<"e3">>), filter |-> None, priority |-> Some(1)]
        [] r = "rAny"    -> [evaluator |-> None, condition |-> Some("always"), output |-> <<"Any">>,
                             events |-> Some(<< >>), filter |-> Some("gt3"), priority |-> None]
        [] r = "rDead"   -> [evaluator |-> None, condition |-> None, output |-> <<"Dead">>,
                             events |-> Some(<<"e4">>), filter |-> None, priority |-> None]
        [] r = "rShadow" -> [evaluator |-> Some("never"), condition |-> Some("always"), output |-> <<"Shadow">>,
                             events |-> Some(<<"e5">>), filter |-> None, priority |-> Some(1)]
        [] r = "rTie"    -> [evaluator |-> Some("always"), condition |-> None, output |-> <<"Tie">>,
                             events |-> Some(<<"e6", "e6">>), filter |-> Some("div2"), priority |-> Some(1)]
        [] r = "rLow"    -> [evaluator |-> Some("always"), condition |-> None, output |-> <<"Low">>,
                             events |-> None, filter |-> None, priority |-> Some(3)]]

\* the rule object a reference denotes
RuleObj(r) == [type |-> "rule", id |-> r, output |-> RuleDef[r].output]

\* ------------------------------------------------------------ rule sets
RuleSetIds == {"sEven", "sDup", "sTail", "sOff", "sEmpty"}

RuleSetDef ==
    [s \in RuleSetIds |->
      CASE s = "sEven"  -> [condition |-> "div2",   rules |-> <<"rFizz", "rBuzz", "rDead">>]
        [] s = "sDup"   -> [condition |-> "always", rules |-> <<"rFizz", "rShadow", "rFizz", "rDead", "rDead">>]
        [] s = "sTail"  -> [condition |-> "always", rules |-> <<"rLow", "rTie", "rBuzz", "rAny">>]
        [] s = "sOff"   -> [condition |-> "never",  rules |-> <<"rLow", "rBuzz">>]
        [] s = "sEmpty" -> [condition |-> "always", rules |-> << >>]]

\* ------------------------------------------- decorators and transformers
\* RuleDecorator functions: rule -> rule
CallDecorator(name, rule) ==
    CASE name = "dPlus"  -> [rule EXCEPT !.output = @ \o <<"+">>]
      [] name = "dBrace" -> [rule EXCEPT !.output = <<"{">> \o @ \o <<"}">>]

\* ResultTransformer functions: (result, num) -> string
CallTransformer(name, result, num) ==
    CASE name = "tBang" -> result \o <<"!">>
      [] name = "tNum"  -> <<"<">> \o result \o NumToString(num)

\* a JavaScript function value, and the exception a bad call raises
Fn(name) == [type |-> "function", name |-> name]
TypeError == [type |-> "TypeError"]

\* --------------------------------------------------------------- groups
GroupIds == {"gOne", "gTwo", "gBare", "gDeco"}

GroupDef ==
    [g \in GroupIds |->
      CASE g = "gOne"  -> [tag |-> "One", rules |-> <<"rFizz", "rBuzz">>, selectBehavior |-> "all",
                           decorators |-> None, resultTransformer |-> Some("tBang")]
        [] g = "gTwo"  -> [tag |-> "Two", rules |-> <<"rBuzz", "rAny", "rTie">>, selectBehavior |-> "first",
                           decorators |-> Some(<< >>), resultTransformer |-> Some("tNum")]
        [] g = "gBare" -> [tag |-> "Bare", rules |-> <<"rAny", "rDead">>, selectBehavior |-> "last",
                           decorators |-> None, resultTransformer |-> None]
        [] g = "gDeco" -> [tag |-> "Deco", rules |-> <<"rFizz", "rTie">>, selectBehavior |-> "all",
                           decorators |-> Some(<<Fn("dPlus"), Fn("dBrace")>>), resultTransformer |-> None]]

\* ------------------------------------------------------------ selectors
\* RuleGroupSelector functions: num -> TaggedRuleGroup[] | undefined
CallRuleGroupSelector(name, num) ==
    CASE name = "gsBase" -> Some(<<"gBare", "gOne", "gTwo">>)
      [] name = "gsEven" -> IF num % 2 = 0 THEN Some(<<"gTwo", "gBare">>) ELSE None
      [] name = "gsDeco" -> IF num % 3 = 0 THEN Some(<<"gDeco">>) ELSE Some(<< >>)

\* RuleSelector functions: num -> RuleSet[] | undefined
CallRuleSelector(name, num) ==
    CASE name = "rsMain" -> Some(<<"sOff", "sEven", "sDup">>)
      [] name = "rsOdd"  -> IF num % 2 = 1 THEN Some(<<"sEmpty", "sDup">>) ELSE None
      [] name = "rsTail" -> Some(<<"sTail", "sDup">>)

\* ResultFormatter functions: results -> string
RECURSIVE Join(_, _)
Join(results, sep) ==
    IF results = << >> THEN << >>
    ELSE IF Len(results) = 1 THEN results[1]
    ELSE results[1] \o <<sep>> \o Join(Tail(results), sep)

CallResultFormatter(name, results) ==
    CASE name = "fmtSpace" -> Join(results, " ")
      [] name = "fmtPipe"  -> Join(results, "|")
      [] name = "fmtComma" -> Join(results, ",")

\* defaultOutput functions: num -> string
CallDefaultOutput(name, num) ==
    CASE name = "toString"     -> NumToString(num)
      [] name = "notDivisible" -> <<"NotDivisible-">> \o NumToString(num)

\* -------------------------------------------------------------- plugins
PluginIds == {"pBase", "pFormat", "pGroups", "pTail"}

PluginDef ==
    [p \in PluginIds |->
      CASE p = "pBase"   -> [ruleGroupSelectors |-> Some(<<"gsBase">>), ruleSelectors |-> Some(<<"rsMain">>),
                             ruleGroupModifiers |-> None, resultFormatters |-> None]
        [] p = "pFormat" -> [ruleGroupSelectors |-> None, ruleSelectors |-> Some(<<"rsOdd">>),
                             ruleGroupModifiers |-> Some(<<"gmId">>), resultFormatters |-> Some(<<"fmtComma">>)]
        [] p = "pGroups" -> [ruleGroupSelectors |-> Some(<<"gsEven", "gsDeco">>), ruleSelectors |-> None,
                             ruleGroupModifiers |-> None, resultFormatters |-> None]
        [] p = "pTail"   -> [ruleGroupSelectors |-> Some(<< >>), ruleSelectors |-> Some(<<"rsTail">>),
                             ruleGroupModifiers |-> None, resultFormatters |-> Some(<< >>)]]

PluginLists == UNION {[1..n -> PluginIds] : n \in 0..MaxPlugins}

\* ------------------------------------------------------ helper functions
RECURSIVE ReduceDecorators(_, _, _, _)
ReduceDecorators(modifiedRule, items, k, context) ==
    IF k > Len(items) THEN modifiedRule
    ELSE ReduceDecorators(CallDecorator(items[k].name, modifiedRule), items, k + 1, context)

\* decorators.reduce(...): only an array has reduce
applyDecorators(rule, decorators, context) ==
    IF decorators.type = "array"
    THEN ReduceDecorators(rule, decorators.items, 1, context)
    ELSE TypeError

applyRuleEvents(rule, num) ==
    IF RuleDef[rule].events # None THEN Get(RuleDef[rule].events) ELSE << >>

evaluateRule(rule, num) ==
    IF RuleDef[rule].evaluator # None THEN CallEvaluator(Get(RuleDef[rule].evaluator), num)
    ELSE IF RuleDef[rule].condition # None THEN CallEvaluator(Get(RuleDef[rule].condition), num)
    ELSE FALSE

Includes(seq, x) == \E i \in 1..Len(seq) : seq[i] = x

\* mutant: the tag of the last group containing the rule
getRuleTag_LastGroup(rule, matchingGroups) ==
    IF \E i \in 1..Len(matchingGroups) : Includes(GroupDef[matchingGroups[i]].rules, rule)
    THEN LET last == CHOOSE i \in 1..Len(matchingGroups) :
                        /\ Includes(GroupDef[matchingGroups[i]].rules, rule)
                        /\ \A j \in (i + 1)..Len(matchingGroups) :
                              ~Includes(GroupDef[matchingGroups[j]].rules, rule)
         IN  GroupDef[matchingGroups[last]].tag
    ELSE "Default"

getRuleTag(rule, matchingGroups) ==
    IF \E i \in 1..Len(matchingGroups) : Includes(GroupDef[matchingGroups[i]].rules, rule)
    THEN LET first == CHOOSE i \in 1..Len(matchingGroups) :
                         /\ Includes(GroupDef[matchingGroups[i]].rules, rule)
                         /\ \A j \in 1..(i - 1) : ~Includes(GroupDef[matchingGroups[j]].rules, rule)
         IN  GroupDef[matchingGroups[first]].tag
    ELSE "Default"

RECURSIVE FlatTransformers(_)
FlatTransformers(groups) ==
    IF groups = << >> THEN << >>
    ELSE GroupDef[Head(groups)].resultTransformer \o FlatTransformers(Tail(groups))

RECURSIVE ReduceTransformers(_, _, _, _)
ReduceTransformers(modifiedResult, transformers, k, num) ==
    IF k > Len(transformers) THEN modifiedResult
    ELSE ReduceTransformers(CallTransformer(transformers[k], modifiedResult, num), transformers, k + 1, num)

applyResultTransformer(result, num, matchingGroups) ==
    ReduceTransformers(result, FlatTransformers(matchingGroups), 1, num)

\* ----------------------------------------------------- sort and filter
\* the comparator's key: (a.priority || 0)
Priority(rule) == IF RuleDef[rule].priority # None THEN Get(RuleDef[rule].priority) ELSE 0

\* mutant: an unstable sort, equal priorities end up in reverse order
RECURSIVE InsertByPriority_Unstable(_, _)
InsertByPriority_Unstable(sorted, rule) ==
    IF sorted = << >> THEN <<rule>>
    ELSE IF Priority(Head(sorted)) < Priority(rule)
         THEN <<Head(sorted)>> \o InsertByPriority_Unstable(Tail(sorted), rule)
         ELSE <<rule>> \o sorted

RECURSIVE InsertByPriority(_, _)
InsertByPriority(sorted, rule) ==
    IF sorted = << >> THEN <<rule>>
    ELSE IF Priority(Head(sorted)) <= Priority(rule)
         THEN <<Head(sorted)>> \o InsertByPriority(Tail(sorted), rule)
         ELSE <<rule>> \o sorted

\* Array.prototype.sort with the priority comparator: a stable sort
RECURSIVE SortByPriority(_)
SortByPriority(rules) ==
    IF rules = << >> THEN << >>
    ELSE InsertByPriority(SortByPriority(SubSeq(rules, 1, Len(rules) - 1)), rules[Len(rules)])

\* .filter((rule, index, self) => !index || rule !== self[index - 1])
RECURSIVE FilterAdjacent(_, _)
FilterAdjacent(self, k) ==
    IF k > Len(self) THEN << >>
    ELSE (IF k = 1 \/ self[k] # self[k - 1] THEN <<self[k]>> ELSE << >>) \o FilterAdjacent(self, k + 1)

\* ------------------------------------------------------------ applyRules
RECURSIVE CollectGroups(_, _)
CollectGroups(selectors, num) ==
    IF selectors = << >> THEN << >>
    ELSE LET taggedRuleGroups == CallRuleGroupSelector(Head(selectors), num)
         IN  (IF taggedRuleGroups # None THEN Get(taggedRuleGroups) ELSE << >>)
                \o CollectGroups(Tail(selectors), num)

RECURSIVE CollectRuleSets(_, _)
CollectRuleSets(selectors, num) ==
    IF selectors = << >> THEN << >>
    ELSE LET sets == CallRuleSelector(Head(selectors), num)
         IN  (IF sets # None THEN Get(sets) ELSE << >>) \o CollectRuleSets(Tail(selectors), num)

GroupsWithRule(matchingGroups, rule) ==
    SelectSeq(matchingGroups, LAMBDA g : Includes(GroupDef[g].rules, rule))

RECURSIVE FlatDecorators(_)
FlatDecorators(groups) ==
    IF groups = << >> THEN << >>
    ELSE (IF GroupDef[Head(groups)].decorators # None THEN Get(GroupDef[Head(groups)].decorators) ELSE << >>)
            \o FlatDecorators(Tail(groups))

\* decoratorList.reduce(applyDecorators, rule): the callback receives
\* (accumulator, element, index)
RECURSIVE ReduceWithApplyDecorators(_, _, _)
ReduceWithApplyDecorators(acc, items, k) ==
    IF k > Len(items) THEN acc
    ELSE LET next == applyDecorators(acc, items[k], k - 1)
         IN  IF next.type = "TypeError" THEN next
             ELSE ReduceWithApplyDecorators(next, items, k + 1)

FilterBlocks(rule, num) ==
    RuleDef[rule].filter # None /\ ~CallEvaluator(Get(RuleDef[rule].filter), num)

\* the body of `if (evaluateRule(rule, i))`
MatchRule(rule, num, matchingGroups, visited) ==
    LET fired == applyRuleEvents(rule, num)
        ruleGroupsWithRule == GroupsWithRule(matchingGroups, rule)
        modifiedRule == ReduceWithApplyDecorators(RuleObj(rule), FlatDecorators(ruleGroupsWithRule), 1)
    IN  IF modifiedRule.type = "TypeError"
        THEN [result |-> << >>, thrown |-> TRUE, fired |-> fired, visited |-> visited,
              winner |-> Some(rule), modified |-> None]
        ELSE [result |-> <<"[", getRuleTag(rule, ruleGroupsWithRule), ": ">>
                            \o applyResultTransformer(modifiedRule.output, num, ruleGroupsWithRule)
                            \o <<"]">>,
              thrown |-> FALSE, fired |-> fired, visited |-> visited,
              winner |-> Some(rule), modified |-> Some(modifiedRule)]

\* for (const rule of sortedRules)
RECURSIVE ScanRules(_, _, _, _, _)
ScanRules(sortedRules, k, num, matchingGroups, visited) ==
    IF k > Len(sortedRules)
    THEN [result |-> << >>, thrown |-> FALSE, fired |-> << >>, visited |-> visited,
          winner |-> None, modified |-> None]
    ELSE LET rule == sortedRules[k]
             seen == Append(visited, rule)
         IN  IF FilterBlocks(rule, num) THEN ScanRules(sortedRules, k + 1, num, matchingGroups, seen)
             ELSE IF evaluateRule(rule, num) THEN MatchRule(rule, num, matchingGroups, seen)
             ELSE ScanRules(sortedRules, k + 1, num, matchingGroups, seen)

Tagged(pos, rules) == [i \in 1..Len(rules) |-> <<pos, rules[i]>>]

\* the body of `if (ruleSet.condition(i))` up to the end of the loop over
\* sortedRules; sort leaves ruleSet.rules sorted, filter builds a new array
ScanRuleSet(ruleSet, k, num, matchingGroups, heap, visited) ==
    LET sortedRules == FilterAdjacent(SortByPriority(heap[ruleSet]), 1)
        out == ScanRules(sortedRules, 1, num, matchingGroups, << >>)
    IN  [result |-> out.result, thrown |-> out.thrown, fired |-> out.fired,
         visited |-> visited \o Tagged(k, out.visited),
         winner |-> IF out.winner = None THEN None ELSE Some(<<k, Get(out.winner)>>),
         modified |-> out.modified,
         heap |-> [heap EXCEPT ![ruleSet] = SortByPriority(heap[ruleSet])]]

RECURSIVE ScanRuleSets(_, _, _, _, _, _)

\* mutant: the break after a labelled rule set is missing
AfterRuleSet_NoBreak(one, ruleSets, k, num, matchingGroups) ==
    IF one.thrown THEN one
    ELSE LET rest == ScanRuleSets(ruleSets, k + 1, num, matchingGroups, one.heap, one.visited)
         IN  [rest EXCEPT !.result = one.result \o @,
                          !.fired = one.fired \o @,
                          !.winner = IF one.winner # None THEN one.winner ELSE @,
                          !.modified = IF one.winner # None THEN one.modified ELSE @]

\* `if (result !== "") break`, or the next rule set
AfterRuleSet(one, ruleSets, k, num, matchingGroups) ==
    IF one.thrown \/ one.result # << >> THEN one
    ELSE ScanRuleSets(ruleSets, k + 1, num, matchingGroups, one.heap, one.visited)

\* for (const ruleSet of ruleSets)
ScanRuleSets(ruleSets, k, num, matchingGroups, heap, visited) ==
    IF k > Len(ruleSets)
    THEN [result |-> << >>, thrown |-> FALSE, fired |-> << >>, visited |-> visited,
          winner |-> None, modified |-> None, heap |-> heap]
    ELSE IF CallEvaluator(RuleSetDef[ruleSets[k]].condition, num)
         THEN AfterRuleSet(ScanRuleSet(ruleSets[k], k, num, matchingGroups, heap, visited),
                           ruleSets, k, num, matchingGroups)
         ELSE ScanRuleSets(ruleSets, k + 1, num, matchingGroups, heap, visited)

\* mutant: the default is used only when no rule set was selected
Outcome_DefaultWithoutRuleSets(i, matchingGroups, ruleSets, heap, defaultOutputFn, out) ==
    [num |-> i, groups |-> matchingGroups, sets |-> ruleSets, before |-> heap,
     result |-> IF out.thrown THEN << >>
                ELSE IF ruleSets = << >> THEN CallDefaultOutput(defaultOutputFn, i)
                ELSE out.result,
     usedDefault |-> ~out.thrown /\ ruleSets = << >>,
     thrown |-> out.thrown, fired |-> out.fired, visited |-> out.visited,
     winner |-> out.winner, modified |-> out.modified, heap |-> out.heap]

\* `if (result === "") result = defaultOutput(i); return result`, with what
\* the call did: the callbacks fired and the rules arrays left behind
Outcome(i, matchingGroups, ruleSets, heap, defaultOutputFn, out) ==
    [num |-> i, groups |-> matchingGroups, sets |-> ruleSets, before |-> heap,
     result |-> IF out.thrown THEN << >>
                ELSE IF out.result = << >> THEN CallDefaultOutput(defaultOutputFn, i)
                ELSE out.result,
     usedDefault |-> ~out.thrown /\ out.result = << >>,
     thrown |-> out.thrown, fired |-> out.fired, visited |-> out.visited,
     winner |-> out.winner, modified |-> out.modified, heap |-> out.heap]

ApplyTo(i, matchingGroups, ruleSets, heap, defaultOutputFn) ==
    Outcome(i, matchingGroups, ruleSets, heap, defaultOutputFn,
            ScanRuleSets(ruleSets, 1, i, matchingGroups, heap, << >>))

applyRules(i, groupSelectors, selectors, heap, defaultOutputFn) ==
    ApplyTo(i, CollectGroups(groupSelectors, i), CollectRuleSets(selectors, i), heap, defaultOutputFn)

\* ------------------------------------------------------------- fizzBuzz
\* Math.ceil(a / b) for integers a and b > 0
Ceil(a, b) == -((-a) \div b)

\* mutant: Math.floor instead of Math.ceil
SequenceLength_Floor(s, e, st) == (e - s + 1) \div st

\* mutant: one more than the floor
SequenceLength_FloorPlusOne(s, e, st) == ((e - s + 1) \div st) + 1

SequenceLength(s, e, st) == Ceil(e - s + 1, st)

\* Array.from({ length }): a negative length gives the empty array
ArrayLength(len) == IF len < 0 THEN 0 ELSE len

NumberAt(s, st, idx) == s + idx * st

VARIABLES
    start, end, step, plugins, defaultOutput, resultFormatter,   \* the arguments
    rulesOf,              \* rule set -> its rules array
    ruleGroupSelectors, ruleSelectors, ruleGroupModifiers, resultFormatters,
    pluginIndex,          \* position of the for-of loop over plugins
    sequenceLength, index, results, finalResult,
    eventLog,             \* the event callbacks run so far: <<num, event>>
    calls,                \* one record per applyRules call made so far
    pc

vars == <<start, end, step, plugins, defaultOutput, resultFormatter, rulesOf,
          ruleGroupSelectors, ruleSelectors, ruleGroupModifiers, resultFormatters,
          pluginIndex, sequenceLength, index, results, finalResult, eventLog, calls, pc>>

args == <<start, end, step, plugins, defaultOutput, resultFormatter>>

InitialRules == [s \in RuleSetIds |-> RuleSetDef[s].rules]

Init ==
    /\ start \in 1..MaxStart
    /\ end \in 0..MaxEnd
    /\ step \in 1..MaxStep
    /\ plugins \in PluginLists
    /\ defaultOutput \in {"toString", "notDivisible"}
    /\ resultFormatter \in {"fmtSpace", "fmtPipe"}
    /\ rulesOf = InitialRules
    /\ ruleGroupSelectors = << >>
    /\ ruleSelectors = << >>
    /\ ruleGroupModifiers = << >>
    /\ resultFormatters = << >>
    /\ pluginIndex = 1
    /\ sequenceLength = 0
    /\ index = 0
    /\ results = << >>
    /\ finalResult = << >>
    /\ eventLog = << >>
    /\ calls = << >>
    /\ pc = "extract"

Push(list, field) == IF field # None THEN list \o Get(field) ELSE list

\* one iteration of `for (const plugin of plugins)`
ExtractPlugin ==
    /\ pc = "extract"
    /\ pluginIndex <= Len(plugins)
    /\ LET plugin == PluginDef[plugins[pluginIndex]]
       IN  /\ ruleGroupSelectors' = Push(ruleGroupSelectors, plugin.ruleGroupSelectors)
           /\ ruleSelectors' = Push(ruleSelectors, plugin.ruleSelectors)
           /\ ruleGroupModifiers' = Push(ruleGroupModifiers, plugin.ruleGroupModifiers)
           /\ resultFormatters' = Push(resultFormatters, plugin.resultFormatters)
    /\ pluginIndex' = pluginIndex + 1
    /\ UNCHANGED <<args, rulesOf, sequenceLength, index, results, finalResult, eventLog, calls, pc>>

\* const sequenceLength = Math.ceil((end - start + 1) / step)
ComputeLength ==
    /\ pc = "extract"
    /\ pluginIndex > Len(plugins)
    /\ sequenceLength' = SequenceLength(start, end, step)
    /\ pc' = "generate"
    /\ UNCHANGED <<args, rulesOf, ruleGroupSelectors, ruleSelectors, ruleGroupModifiers,
                   resultFormatters, pluginIndex, index, results, finalResult, eventLog, calls>>

Logged(num, fired) == [i \in 1..Len(fired) |-> <<num, fired[i]>>]

\* one element of Array.from: applyRules(start + index * step) returns a label
ApplyRulesReturn ==
    /\ pc = "generate"
    /\ index < ArrayLength(sequenceLength)
    /\ \E call \in {applyRules(NumberAt(start, step, index), ruleGroupSelectors, ruleSelectors,
                                 rulesOf, defaultOutput)} :
           /\ ~call.thrown
           /\ results' = Append(results, call.result)
           /\ rulesOf' = call.heap
           /\ eventLog' = eventLog \o Logged(call.num, call.fired)
           /\ calls' = Append(calls, call)
    /\ index' = index + 1
    /\ UNCHANGED <<args, ruleGroupSelectors, ruleSelectors, ruleGroupModifiers, resultFormatters,
                   pluginIndex, sequenceLength, finalResult, pc>>

\* applyRules(start + index * step) throws: the exception leaves fizzBuzz
ApplyRulesThrow ==
    /\ pc = "generate"
    /\ index < ArrayLength(sequenceLength)
    /\ \E call \in {applyRules(NumberAt(start, step, index), ruleGroupSelectors, ruleSelectors,
                                 rulesOf, defaultOutput)} :
           /\ call.thrown
           /\ rulesOf' = call.heap
           /\ eventLog' = eventLog \o Logged(call.num, call.fired)
           /\ calls' = Append(calls, call)
    /\ pc' = "thrown"
    /\ UNCHANGED <<args, ruleGroupSelectors, ruleSelectors, ruleGroupModifiers, resultFormatters,
                   pluginIndex, sequenceLength, index, results, finalResult>>

\* const finalResult = resultFormatter(results); return finalResult
Format ==
    /\ pc = "generate"
    /\ index = ArrayLength(sequenceLength)
    /\ finalResult' = CallResultFormatter(resultFormatter, results)
    /\ pc' = "done"
    /\ UNCHANGED <<args, rulesOf, ruleGroupSelectors, ruleSelectors, ruleGroupModifiers,
                   resultFormatters, pluginIndex, sequenceLength, index, results, eventLog, calls>>

Next == ExtractPlugin \/ ComputeLength \/ ApplyRulesReturn \/ ApplyRulesThrow \/ Format

Spec == Init /\ [][Next]_vars

\* ==================================================================
\* Properties.  The operators below state what the specification says,
\* independently of the operators that model the code.
\* ==================================================================

\* the rule sets the rule selectors return for n: selector order, then returned order
RECURSIVE ReturnedSets(_, _)
ReturnedSets(n, k) ==
    IF k = 0 THEN << >>
    ELSE ReturnedSets(n, k - 1)
            \o (IF CallRuleSelector(ruleSelectors[k], n) = None THEN << >>
                ELSE CallRuleSelector(ruleSelectors[k], n)[1])

\* the groups the group selectors return for n: selector order, then returned order
RECURSIVE ReturnedGroups(_, _)
ReturnedGroups(n, k) ==
    IF k = 0 THEN << >>
    ELSE ReturnedGroups(n, k - 1)
            \o (IF CallRuleGroupSelector(ruleGroupSelectors[k], n) = None THEN << >>
                ELSE CallRuleGroupSelector(ruleGroupSelectors[k], n)[1])

SetsFor(n) == ReturnedSets(n, Len(ruleSelectors))
GroupsFor(n) == ReturnedGroups(n, Len(ruleGroupSelectors))

\* a rule passes its filter (or has none)
Passes(r, n) == RuleDef[r].filter = None \/ CallEvaluator(RuleDef[r].filter[1], n)

\* a rule matches: evaluator if present, else condition if present, else never
Hits(r, n) ==
    CASE RuleDef[r].evaluator # None -> CallEvaluator(RuleDef[r].evaluator[1], n)
      [] RuleDef[r].evaluator = None /\ RuleDef[r].condition # None ->
            CallEvaluator(RuleDef[r].condition[1], n)
      [] OTHER -> FALSE

Wins(r, n) == Passes(r, n) /\ Hits(r, n)

Active(s, n) == CallEvaluator(RuleSetDef[s].condition, n)

\* the rule set is active for n and one of its rules passes its filter and matches
Yields(s, n) == Active(s, n) /\ \E i \in 1..Len(InitialRules[s]) : Wins(InitialRules[s][i], n)

Yielding(n) == {p \in 1..Len(SetsFor(n)) : Yields(SetsFor(n)[p], n)}

WinnerPos(c) == c.winner[1][1]
WinnerRule(c) == c.winner[1][2]

\* the selected groups that contain the rule by reference, in order
Containing(r, n) ==
    SelectSeq(GroupsFor(n), LAMBDA g : \E i \in 1..Len(GroupDef[g].rules) : GroupDef[g].rules[i] = r)

\* the decorators the groups G contribute: group order, then in-group order
RECURSIVE DecoratorsOf(_, _)
DecoratorsOf(G, k) ==
    IF k = 0 THEN << >>
    ELSE DecoratorsOf(G, k - 1)
            \o (IF GroupDef[G[k]].decorators = None THEN << >> ELSE GroupDef[G[k]].decorators[1])

\* Dk(...D1(rule))
RECURSIVE Decorated(_, _, _)
Decorated(D, k, rule) ==
    IF k = 0 THEN rule ELSE CallDecorator(D[k].name, Decorated(D, k - 1, rule))

\* Tk(...T1(out, n), n) over the transformers of the first k groups of G
RECURSIVE Body(_, _, _, _)
Body(G, k, out, n) ==
    IF k = 0 THEN out
    ELSE IF GroupDef[G[k]].resultTransformer = None THEN Body(G, k - 1, out, n)
    ELSE CallTransformer(GroupDef[G[k]].resultTransformer[1], Body(G, k - 1, out, n), n)

TagOf(G) == IF G = << >> THEN "Default" ELSE GroupDef[G[1]].tag

LabelOf(G, out, n) == <<"[", TagOf(G), ": ">> \o Body(G, Len(G), out, n) \o <<"]">>

EventsOf(r) == IF RuleDef[r].events = None THEN << >> ELSE RuleDef[r].events[1]

OutputTokens == {RuleDef[r].output[1] : r \in RuleIds}

\* ------------------------------------------------------------------ C1
\* C1: for every evaluated number, if no rule set returned by the rule
\* selectors both has a true condition and contains a rule that passes its
\* filter and matches, the label is exactly defaultOutput(num); and
\* defaultOutput is used for no number for which such a rule set exists.
C1_DefaultFallback ==
    \A k \in 1..Len(calls) :
        LET c == calls[k]
        IN  /\ Yielding(c.num) = {} =>
                /\ ~c.thrown
                /\ c.usedDefault
                /\ c.result = CallDefaultOutput(defaultOutput, c.num)
                /\ results[k] = CallDefaultOutput(defaultOutput, c.num)
            /\ Yielding(c.num) # {} =>
                /\ ~c.usedDefault
                /\ c.result # CallDefaultOutput(defaultOutput, c.num)

\* a number fell back to the default although an active, non-empty rule set was scanned
C1_Witness ==
    \E k \in 1..Len(results) :
        LET n == calls[k].num
        IN  /\ Yielding(n) = {}
            /\ \E p \in 1..Len(SetsFor(n)) :
                  Active(SetsFor(n)[p], n) /\ InitialRules[SetsFor(n)[p]] # << >>
            /\ results[k] = CallDefaultOutput(defaultOutput, n)

\* ------------------------------------------------------------------ C2
\* C2: the label comes from the first rule set (selector order, then
\* returned order) whose condition holds and whose rules yield a match;
\* rule sets with a false condition are skipped, an active rule set
\* without a match is scanned completely and passed, no rule of a later
\* rule set is visited, and the label holds exactly one rule's output.
C2_FirstRuleSet ==
    \A k \in 1..Len(calls) :
        LET c == calls[k]
            n == c.num
            sets == SetsFor(n)
            last == IF Yielding(n) = {} THEN Len(sets)
                    ELSE CHOOSE p \in Yielding(n) : \A q \in Yielding(n) : p <= q
        IN  /\ c.sets = sets
            /\ Yielding(n) = {} => c.winner = None /\ c.usedDefault
            /\ Yielding(n) # {} => c.winner # None /\ WinnerPos(c) = last
            /\ \A j \in 1..Len(c.visited) :
                  c.visited[j][1] <= last /\ Active(sets[c.visited[j][1]], n)
            /\ \A q \in 1..last :
                  (Active(sets[q], n) /\ ~Yields(sets[q], n)) =>
                      \A i \in 1..Len(InitialRules[sets[q]]) :
                          \E j \in 1..Len(c.visited) : c.visited[j] = <<q, InitialRules[sets[q]][i]>>
            /\ (c.winner # None /\ ~c.thrown) =>
                  /\ Cardinality({i \in 1..Len(c.result) : c.result[i] \in OutputTokens}) = 1
                  /\ \E i \in 1..Len(c.result) : c.result[i] = RuleDef[WinnerRule(c)].output[1]

\* a label came from a rule set behind a skipped one and a matchless active
\* one, with a later active rule set left unvisited
C2_Witness ==
    \E k \in 1..Len(results) :
        LET c == calls[k]
            sets == SetsFor(c.num)
        IN  /\ c.winner # None
            /\ WinnerPos(c) < Len(sets)
            /\ \E q \in 1..(WinnerPos(c) - 1) : ~Active(sets[q], c.num)
            /\ \E q \in 1..(WinnerPos(c) - 1) :
                  Active(sets[q], c.num) /\ InitialRules[sets[q]] # << >>
            /\ \E q \in (WinnerPos(c) + 1)..Len(sets) :
                  Active(sets[q], c.num) /\ InitialRules[sets[q]] # << >>
            /\ results[k] = c.result

\* ------------------------------------------------------------------ C3
\* C3: within the winning rule set the winner is the first rule, in
\* ascending priority order (absent priority is 0, equal priorities keep
\* the order of the rules array), that passes its filter and matches; so a
\* matching rule of lower priority number wins whatever the array order.
Key(r) == IF RuleDef[r].priority = None THEN 0 ELSE RuleDef[r].priority[1]

Precedes(A, i, j) == Key(A[i]) < Key(A[j]) \/ (Key(A[i]) = Key(A[j]) /\ i < j)

C3_PriorityOrder ==
    \A k \in 1..Len(calls) :
        LET c == calls[k]
        IN  c.winner # None =>
                LET A == InitialRules[SetsFor(c.num)[WinnerPos(c)]]
                    r == WinnerRule(c)
                IN  /\ Wins(r, c.num)
                    /\ \E i \in 1..Len(A) :
                          /\ A[i] = r
                          /\ \A j \in 1..Len(A) :
                                (Wins(A[j], c.num) /\ A[j] # r) => Precedes(A, i, j)
                    /\ ~c.thrown => \E t \in 1..Len(c.result) : c.result[t] = RuleDef[r].output[1]

\* one run in which a rule won against a matching rule placed before it in
\* the array, and a rule won a tie against a matching rule placed after it
C3_Witness ==
    /\ \E k \in 1..Len(results) :
          LET c == calls[k]
              A == InitialRules[SetsFor(c.num)[WinnerPos(c)]]
          IN  /\ c.winner # None
              /\ \E i, j \in 1..Len(A) :
                    /\ A[i] = WinnerRule(c) /\ j < i
                    /\ Wins(A[j], c.num) /\ Key(A[j]) > Key(A[i])
    /\ \E k \in 1..Len(results) :
          LET c == calls[k]
              A == InitialRules[SetsFor(c.num)[WinnerPos(c)]]
          IN  /\ c.winner # None
              /\ \E i, j \in 1..Len(A) :
                    /\ A[i] = WinnerRule(c) /\ i < j /\ A[j] # A[i]
                    /\ Wins(A[j], c.num) /\ Key(A[j]) = Key(A[i])

\* ------------------------------------------------------------------ C4
\* C4: when the groups containing the matching rule contribute decorators
\* [D1, D2, ...], the rule used for the output is ...D2(D1(original)), the
\* evaluation completes normally and the label is built from that rule.
C4_DecoratorFold ==
    \A k \in 1..Len(calls) :
        LET c == calls[k]
        IN  c.winner # None =>
                LET G == Containing(WinnerRule(c), c.num)
                    D == DecoratorsOf(G, Len(G))
                    rule == Decorated(D, Len(D), RuleObj(WinnerRule(c)))
                IN  D # << >> =>
                        /\ ~c.thrown
                        /\ c.modified = Some(rule)
                        /\ c.result = LabelOf(G, rule.output, c.num)

\* ------------------------------------------------------------------ C5
\* C5: for a matching rule whose groups carry no decorators the label is
\* "[" + tag + ": " + body + "]": tag is the tag of the first selected
\* group containing the rule, or "Default"; body is the left fold of the
\* transformers of the selected groups containing the rule over its output.
C5_Label ==
    \A k \in 1..Len(calls) :
        LET c == calls[k]
        IN  c.winner # None =>
                LET G == Containing(WinnerRule(c), c.num)
                IN  DecoratorsOf(G, Len(G)) = << >> =>
                        /\ ~c.thrown
                        /\ c.result = LabelOf(G, RuleDef[WinnerRule(c)].output, c.num)
                        /\ results[k] = LabelOf(G, RuleDef[WinnerRule(c)].output, c.num)

\* one run with a label folded over two transformers [T1, T2] while a
\* selected group that does not contain the rule stayed out of it, and a
\* label tagged "Default"
C5_Witness ==
    /\ \E k \in 1..Len(results) :
          LET c == calls[k]
              G == Containing(WinnerRule(c), c.num)
          IN  /\ c.winner # None
              /\ Len(G) >= 2 /\ Len(G) < Len(GroupsFor(c.num))
              /\ \E i, j \in 1..Len(G) :
                    /\ i < j
                    /\ GroupDef[G[i]].resultTransformer = Some("tBang")
                    /\ GroupDef[G[j]].resultTransformer = Some("tNum")
              /\ results[k] = <<"[", GroupDef[G[1]].tag, ": ">>
                                 \o Body(G, Len(G), RuleDef[WinnerRule(c)].output, c.num) \o <<"]">>
    /\ \E k \in 1..Len(results) :
          /\ calls[k].winner # None
          /\ Containing(WinnerRule(calls[k]), calls[k].num) = << >>
          /\ results[k][2] = "Default"

\* ------------------------------------------------------------------ C6
\* C6: fizzBuzz evaluates the numbers start + index*step, index = 0 ..
\* length-1 with length = ceil((end - start + 1) / step) (none when end <
\* start), in increasing index order, and the formatter receives exactly
\* their labels in that order.
ExpectedLength(s, e, st) ==
    IF e < s THEN 0
    ELSE CHOOSE L \in 1..(e - s + 1) : L * st >= e - s + 1 /\ (L - 1) * st < e - s + 1

C6_Sequence ==
    /\ \A k \in 1..Len(calls) : calls[k].num = start + (k - 1) * step
    /\ Len(calls) <= ExpectedLength(start, end, step)
    /\ \A k \in 1..Len(results) : results[k] = calls[k].result
    /\ pc \in {"generate", "done", "thrown"} =>
          ArrayLength(sequenceLength) = ExpectedLength(start, end, step)
    /\ pc = "done" =>
          /\ Len(results) = ExpectedLength(start, end, step)
          /\ finalResult = CallResultFormatter(resultFormatter,
                               [k \in 1..ExpectedLength(start, end, step) |-> calls[k].result])

\* a finished run of several numbers whose range is no multiple of the step
C6_Witness ==
    /\ pc = "done"
    /\ Len(results) >= 2
    /\ (end - start + 1) % step # 0
    /\ calls[Len(calls)].num = start + (Len(results) - 1) * step

\* ------------------------------------------------------------------ C7
\* C7 as stated: some start <= end and step make a generated number greater
\* than end, and no generated number exceeds end + step - 1.
C7_CanOvershoot ==
    pc = "done" =>
        /\ \E s \in 1..MaxStart, e \in 0..MaxEnd, st \in 1..MaxStep :
              /\ s <= e
              /\ \E idx \in 0..(ArrayLength(SequenceLength(s, e, st)) - 1) : NumberAt(s, st, idx) > e
        /\ \A k \in 1..Len(calls) : calls[k].num <= end + step - 1

\* C7 amended: no generated number is greater than end (so none exceeds
\* end + step - 1); the last generated number falls short of end by at
\* most step - 1.
C7_NeverOvershoots ==
    /\ \A k \in 1..Len(calls) : calls[k].num <= end
    /\ \A idx \in 0..(ArrayLength(sequenceLength) - 1) : NumberAt(start, step, idx) <= end
    /\ (pc = "done" /\ start <= end) =>
          /\ calls # << >>
          /\ end - calls[Len(calls)].num <= step - 1

\* a finished run whose last number stays below end
C7_Witness ==
    /\ pc = "done"
    /\ Len(calls) >= 2
    /\ step > 1
    /\ calls[Len(calls)].num < end
    /\ calls[Len(calls)].num + step > end

\* ------------------------------------------------------------------ C8
\* C8: the result formatters a plugin supplies format the final results:
\* the returned string is what a plugin's result formatter makes of the labels.
C8_PluginFormatters ==
    (pc = "done" /\ resultFormatters # << >>) =>
        \E k \in 1..Len(resultFormatters) :
            finalResult = CallResultFormatter(resultFormatters[k], results)

\* ------------------------------------------------------------------ C9
\* C9: the event callbacks that ran are exactly, number by number in the
\* order of generation, the events of the rule whose label was emitted,
\* each once and in array order; a number with the default label and a
\* rule without an emitted label contribute none.
RECURSIVE EventsOfLabels(_)
EventsOfLabels(k) ==
    IF k = 0 THEN << >>
    ELSE EventsOfLabels(k - 1)
            \o (IF Yielding(calls[k].num) = {} THEN << >>
                ELSE [i \in 1..Len(EventsOf(WinnerRule(calls[k]))) |->
                         <<calls[k].num, EventsOf(WinnerRule(calls[k]))[i]>>])

C9_Events == eventLog = EventsOfLabels(Len(results))

\* ----------------------------------------------------------------- C10
\* C10: when no decorators are involved, the rules sequence of every rule
\* set has the content and the order it had before the run.
NoDecoratorsInvolved ==
    \A k \in 1..Len(calls) :
        DecoratorsOf(calls[k].groups, Len(calls[k].groups)) = << >>

C10_ReadOnly == NoDecoratorsInvolved => rulesOf = InitialRules
====
